---- MODULE Spec2Model ----
(***************************************************************************)
(* Model of backend/main.py: the business-card service.  The record store  *)
(* is the text of cards.csv; every handler is translated step by step.     *)
(*                                                                         *)
(* Text is a sequence of tokens.  The four tokens the csv module treats    *)
(* specially are single characters; every other token (a letter, a column  *)
(* name, a uuid, a file suffix) is an ordinary character run.              *)
(***************************************************************************)
EXTENDS Integers, Sequences, FiniteSets, TLC

COMMA == ","
QUOTE == "\""
CR == "\r"
LF == "\n"

\* main.py COLUMNS, in file order
COLUMNS ==
  << "id", "first_name", "last_name", "company", "company_logo_description",
     "email", "phone", "address", "meeting_context", "priorities",
     "personal_notes", "captured_at", "source_image", "summary_image",
     "raw_ocr_json" >>

ColumnSet == { COLUMNS[i] : i \in 1..Len(COLUMNS) }

\* the seven keys upload_card reads from the extraction
IdentityFields ==
  << "first_name", "last_name", "company", "company_logo_description",
     "email", "phone", "address" >>

\* the three fields of CardContext
ContextFields == << "meeting_context", "priorities", "personal_notes" >>

(***************************************************************************)
(* Python values that can sit in a record: a str, None, or an int (what    *)
(* json.loads can hand back for a field).  s is the text str(value) gives. *)
(***************************************************************************)
StrV(s) == [t |-> "str", s |-> s]
NoneV == [t |-> "none", s |-> << "None" >>]
IntV(s) == [t |-> "int", s |-> s]
EmptyStr == StrV(<< >>)

\* _csv writer: None is written as the empty field, a str as itself,
\* anything else as str(value)
CsvText(v) == IF v.t = "none" THEN << >> ELSE v.s

\* _csv writer, QUOTE_MINIMAL, excel dialect: a field is quoted when it
\* holds the delimiter, the quote character or a line-terminator character
NeedsQuote(s) == \E i \in 1..Len(s) : s[i] \in {COMMA, QUOTE, CR, LF}

RECURSIVE DoubleQuotes(_)
DoubleQuotes(s) ==
  IF s = << >> THEN << >>
  ELSE (IF Head(s) = QUOTE THEN << QUOTE, QUOTE >> ELSE << Head(s) >>)
       \o DoubleQuotes(Tail(s))

WriteField(s) ==
  IF NeedsQuote(s) THEN << QUOTE >> \o DoubleQuotes(s) \o << QUOTE >> ELSE s

RECURSIVE JoinFields(_)
JoinFields(fields) ==
  IF fields = << >> THEN << >>
  ELSE IF Len(fields) = 1 THEN WriteField(fields[1])
  ELSE WriteField(fields[1]) \o << COMMA >> \o JoinFields(Tail(fields))

\* csv.writer.writerow: the joined fields and the line terminator "\r\n"
writerow(fields) == JoinFields(fields) \o << CR, LF >>

\* csv.DictWriter.writeheader
writeheader == writerow([i \in 1..Len(COLUMNS) |-> << COLUMNS[i] >>])

\* csv.DictWriter.writerow: the row's values in fieldnames order, a missing
\* key written as restval ""
DictWriterRow(row) ==
  writerow([i \in 1..Len(COLUMNS) |->
              IF COLUMNS[i] \in DOMAIN row THEN CsvText(row[COLUMNS[i]])
              ELSE << >>])

(***************************************************************************)
(* _csv reader (non-strict, doublequote), as the state machine of          *)
(* parse_process_char.                                                     *)
(***************************************************************************)
ReaderInit ==
  [mode |-> "START_RECORD", field |-> << >>, row |-> << >>, rows |-> << >>]

SaveField(st) ==
  [st EXCEPT !.row = Append(st.row, st.field), !.field = << >>]

EndRecord(st) ==
  [mode |-> "EAT_CRNL", field |-> << >>, row |-> << >>,
   rows |-> Append(st.rows, Append(st.row, st.field))]

AddChar(st, c, mode) == [st EXCEPT !.field = Append(st.field, c), !.mode = mode]

StartField(st, c) ==
  IF c \in {CR, LF} THEN EndRecord(st)
  ELSE IF c = QUOTE THEN [st EXCEPT !.mode = "IN_QUOTED_FIELD"]
  ELSE IF c = COMMA THEN [SaveField(st) EXCEPT !.mode = "START_FIELD"]
  ELSE AddChar(st, c, "IN_FIELD")

ReaderStep(st, c) ==
  CASE st.mode = "START_RECORD" ->
         IF c \in {CR, LF} THEN [st EXCEPT !.mode = "EAT_CRNL"]
         ELSE StartField(st, c)
    [] st.mode = "START_FIELD" -> StartField(st, c)
    [] st.mode = "IN_FIELD" ->
         IF c \in {CR, LF} THEN EndRecord(st)
         ELSE IF c = COMMA THEN [SaveField(st) EXCEPT !.mode = "START_FIELD"]
         ELSE AddChar(st, c, "IN_FIELD")
    [] st.mode = "IN_QUOTED_FIELD" ->
         IF c = QUOTE THEN [st EXCEPT !.mode = "QUOTE_IN_QUOTED_FIELD"]
         ELSE AddChar(st, c, "IN_QUOTED_FIELD")
    [] st.mode = "QUOTE_IN_QUOTED_FIELD" ->
         IF c = QUOTE THEN AddChar(st, c, "IN_QUOTED_FIELD")
         ELSE IF c = COMMA THEN [SaveField(st) EXCEPT !.mode = "START_FIELD"]
         ELSE IF c \in {CR, LF} THEN EndRecord(st)
         ELSE AddChar(st, c, "IN_FIELD")
    [] st.mode = "EAT_CRNL" ->
         IF c \in {CR, LF} THEN st
         ELSE StartField([st EXCEPT !.mode = "START_RECORD"], c)

\* the reader's loop over the characters text[lo..hi].  The range is halved
\* and the state after the first half is computed before the second half
\* starts, so that the evaluation stays shallow on a long file.
RECURSIVE ReaderRun(_, _, _, _)
ReaderThen(text, lo, hi, st) ==
  IF st.mode = "" THEN st ELSE ReaderRun(text, lo, hi, st)

ReaderRun(text, lo, hi, st) ==
  IF lo > hi THEN st
  ELSE IF lo = hi THEN ReaderStep(st, text[lo])
  ELSE ReaderThen(text, (lo + hi) \div 2 + 1, hi,
                  ReaderRun(text, lo, (lo + hi) \div 2, st))

\* csv.reader over the whole text: the list of rows, each a list of fields
CsvRows(text) ==
  LET st == ReaderRun(text, 1, Len(text), ReaderInit)
  IN IF st.mode \in {"START_RECORD", "EAT_CRNL"} THEN st.rows
     ELSE Append(st.rows, Append(st.row, st.field))

\* a header field is one column-name token
ColName(f) == IF Len(f) = 1 THEN f[1] ELSE "?"

\* csv.DictReader: the first row gives the fieldnames; every later row is a
\* dict of str values, a short row filled with restval None
DictReaderRows(text) ==
  LET rows == CsvRows(text)
  IN IF rows = << >> THEN << >>
     ELSE LET names == rows[1]
              keys == { ColName(names[i]) : i \in 1..Len(names) }
              Pos(k) == CHOOSE i \in 1..Len(names) : ColName(names[i]) = k
          IN [n \in 1..(Len(rows) - 1) |->
                [k \in keys |->
                   IF Pos(k) <= Len(rows[n + 1])
                   THEN StrV(rows[n + 1][Pos(k)]) ELSE NoneV]]


(***************************************************************************)
(* The record store: cards.csv                                             *)
(***************************************************************************)
\* ensure_data_file: a missing file is created holding the header only
ensure_data_file(exists, text) == IF exists THEN text ELSE writeheader

\* load_records: ensure_data_file, then list(csv.DictReader(f))
load_records(exists, text) == DictReaderRows(ensure_data_file(exists, text))

RECURSIVE WriteRows(_)
WriteRows(records) ==
  IF records = << >> THEN << >>
  ELSE DictWriterRow(Head(records)) \o WriteRows(Tail(records))

\* a write_records that keeps the rows of the old file it was not given
write_records_Merge(old, records) ==
  writeheader \o WriteRows(records)
  \o WriteRows(SelectSeq(DictReaderRows(old),
                         LAMBDA r : r["id"] \notin
                                    { records[i]["id"] : i \in 1..Len(records) }))

\* write_records: open(..., "w") drops the old text; the header and every
\* row of the list are written
write_records(old, records) == writeheader \o WriteRows(records)

Ids(records) == { records[i]["id"] : i \in 1..Len(records) }

\* the loop of update_record and get_card: the first row with the id
HasRow(records, card_id) ==
  \E i \in 1..Len(records) : records[i]["id"] = StrV(<< card_id >>)

\* a search that takes the last row whatever its id
RowIndex_Last(records, card_id) == Len(records)

RowIndex(records, card_id) ==
  CHOOSE i \in 1..Len(records) :
    /\ records[i]["id"] = StrV(<< card_id >>)
    /\ \A j \in 1..(i - 1) : records[j]["id"] # StrV(<< card_id >>)

\* dict.update
DictUpdate(row, changes) ==
  [k \in (DOMAIN row) \cup (DOMAIN changes) |->
     IF k \in DOMAIN changes THEN changes[k] ELSE row[k]]

\* an update_record that returns instead of raising when no row has the id
update_record_NoRaise(records, card_id, changes) ==
  IF \E i \in 1..Len(records) : records[i]["id"] = StrV(<< card_id >>)
    THEN LET i == CHOOSE i \in 1..Len(records) :
                    records[i]["id"] = StrV(<< card_id >>)
             row == [k \in (DOMAIN records[i]) \cup (DOMAIN changes) |->
                       IF k \in DOMAIN changes THEN changes[k] ELSE records[i][k]]
         IN [found |-> TRUE, records |-> [records EXCEPT ![i] = row], row |-> row]
    ELSE [found |-> TRUE, records |-> records,
          row |-> [k \in ColumnSet |-> EmptyStr]]

\* update_record, up to write_records: whether a row has the id, the list
\* with the first such row updated in place, and that row
update_record(records, card_id, changes) ==
  IF HasRow(records, card_id)
    THEN LET i == RowIndex(records, card_id)
             row == DictUpdate(records[i], changes)
         IN [found |-> TRUE, records |-> [records EXCEPT ![i] = row], row |-> row]
    ELSE [found |-> FALSE, records |-> records,
          row |-> [k \in ColumnSet |-> EmptyStr]]

(***************************************************************************)
(* serialize_record and CardResponse                                       *)
(***************************************************************************)
ResponseStrFields ==
  { "id", "first_name", "last_name", "company", "company_logo_description",
    "email", "phone", "address", "meeting_context", "priorities",
    "personal_notes", "captured_at" }

Get(record, k, default) == IF k \in DOMAIN record THEN record[k] ELSE default

Truthy(v) == v.t = "int" \/ (v.t = "str" /\ v.s # << >>)

MediaUrl(v) == IF Truthy(v) THEN StrV(<< "/media/" >> \o v.s) ELSE NoneV

\* CardResponse(**fields): pydantic rejects a value that is not a str in a
\* str field
CardResponseValid(record) ==
  /\ \A k \in ResponseStrFields : Get(record, k, EmptyStr).t = "str"
  /\ Get(record, "raw_ocr_json", StrV(<< "{}" >>)).t = "str"

serialize_record(record) ==
  [k \in ResponseStrFields \cup
         {"source_image_url", "summary_image_url", "raw_ocr_json"} |->
     IF k = "source_image_url" THEN MediaUrl(Get(record, "source_image", NoneV))
     ELSE IF k = "summary_image_url"
       THEN MediaUrl(Get(record, "summary_image", NoneV))
     ELSE IF k = "raw_ocr_json" THEN Get(record, k, StrV(<< "{}" >>))
     ELSE Get(record, k, EmptyStr)]

(***************************************************************************)
(* json.dumps(extracted, ensure_ascii=False)                               *)
(***************************************************************************)
RECURSIVE JsonEscape(_)
JsonEscape(s) ==
  IF s = << >> THEN << >>
  ELSE (CASE Head(s) = QUOTE -> << "\\", QUOTE >>
          [] Head(s) = LF -> << "\\", "n" >>
          [] Head(s) = CR -> << "\\", "r" >>
          [] OTHER -> << Head(s) >>) \o JsonEscape(Tail(s))

JsonValue(v) ==
  IF v.t = "str" THEN << QUOTE >> \o JsonEscape(v.s) \o << QUOTE >>
  ELSE IF v.t = "none" THEN << "null" >> ELSE v.s

RECURSIVE JsonItems(_, _, _)
JsonItems(d, i, first) ==
  IF i > Len(IdentityFields) THEN << >>
  ELSE IF IdentityFields[i] \notin DOMAIN d THEN JsonItems(d, i + 1, first)
  ELSE (IF first THEN << >> ELSE << COMMA, " " >>)
       \o << QUOTE, IdentityFields[i], QUOTE, ":", " " >>
       \o JsonValue(d[IdentityFields[i]]) \o JsonItems(d, i + 1, FALSE)

json_dumps(d) == << "{" >> \o JsonItems(d, 1, TRUE) \o << "}" >>

(***************************************************************************)
(* parse_json_blob                                                         *)
(***************************************************************************)
\* the backtick character
BACKTICK == "BACKTICK"

Whitespace == {" ", "\t", CR, LF}

RECURSIVE LStrip(_)
LStrip(s) ==
  IF s # << >> /\ Head(s) \in Whitespace THEN LStrip(Tail(s)) ELSE s

RECURSIVE RStrip(_)
RStrip(s) ==
  IF s # << >> /\ s[Len(s)] \in Whitespace
    THEN RStrip(SubSeq(s, 1, Len(s) - 1)) ELSE s

\* str.strip()
Strip(s) == RStrip(LStrip(s))

\* str.split of three backticks: the parts between the occurrences of three backticks,
\* found from the left and not overlapping
RECURSIVE SplitFence(_, _, _)
SplitFence(s, i, cur) ==
  IF i > Len(s) THEN << cur >>
  ELSE IF i + 2 <= Len(s) /\ s[i] = BACKTICK /\ s[i + 1] = BACKTICK
          /\ s[i + 2] = BACKTICK
    THEN << cur >> \o SplitFence(s, i + 3, << >>)
  ELSE SplitFence(s, i + 1, Append(cur, s[i]))

\* "".join(parts)
RECURSIVE Join(_)
Join(parts) == IF parts = << >> THEN << >> ELSE Head(parts) \o Join(Tail(parts))

\* the tag cleaned.startswith("json") looks for
JsonTag == << "j", "s", "o", "n" >>

StartsWith(s, prefix) ==
  Len(s) >= Len(prefix) /\ SubSeq(s, 1, Len(prefix)) = prefix

\* the text with the fences taken off: the second part when there are at
\* least three, all parts joined otherwise
Unfence(cleaned) ==
  LET parts == SplitFence(cleaned, 1, << >>)
  IN IF Len(parts) = 1 THEN cleaned
     ELSE IF Len(parts) >= 3 THEN parts[2] ELSE Join(parts)

\* cleaned[4:] when cleaned starts with "json"
Untag(cleaned) ==
  IF StartsWith(cleaned, JsonTag)
    THEN SubSeq(cleaned, Len(JsonTag) + 1, Len(cleaned)) ELSE cleaned

\* cleaned[cleaned.index("{") : cleaned.rindex("}") + 1]; a ValueError of
\* index or rindex leaves cleaned as it is
Braces(cleaned) ==
  LET opens == { i \in 1..Len(cleaned) : cleaned[i] = "{" }
      closes == { i \in 1..Len(cleaned) : cleaned[i] = "}" }
  IN IF opens = {} \/ closes = {} THEN cleaned
     ELSE SubSeq(cleaned,
                 CHOOSE i \in opens : \A j \in opens : i <= j,
                 CHOOSE i \in closes : \A j \in closes : i >= j)

\* parse_json_blob up to json.loads: the text handed to the decoder
parse_json_blob(text) == Braces(Untag(Unfence(Strip(text))))

\* the length of the text between the braces of a fenced object
MaxInner == 3

InnerAlphabet == {"a", BACKTICK, "{"}

\* JSON objects as text: an opening brace, at most MaxInner characters, a
\* closing brace
FencedObjects ==
  { << "{" >> \o inner \o << "}" >> :
      inner \in UNION { [1..n -> InnerAlphabet] : n \in 0..MaxInner } }

FENCE == << BACKTICK, BACKTICK, BACKTICK >>

\* a model response that wraps the object in code fences: prose or nothing
\* before, the fence with or without the json tag, the object, the closing
\* fence, prose or nothing after
FencedResponses ==
  { [object |-> obj,
     text |-> before \o FENCE \o tag \o << LF >> \o obj \o << LF >> \o FENCE
              \o after] :
      obj \in FencedObjects,
      before \in { << >>, << "H", "i", ":", LF >> },
      tag \in { << >>, JsonTag },
      after \in { << >>, << LF, "o", "k" >> } }

(***************************************************************************)
(* Inputs                                                                  *)
(***************************************************************************)
\* the number of cards a run uploads
MaxCards == 2

\* SpecConc: the number of requests worker 1 serves while worker 2 serves one
ConcRequests == 2

UuidNames == << "u1", "u2", "u3", "u4", "u5" >>

UUIDs == { UuidNames[i] : i \in 1..MaxCards }

\* an id generator that returns the same id again
uuid4_Fixed(issued) == { UuidNames[1] }

\* str(uuid.uuid4()): an id no earlier call returned (the next unused name)
uuid4(issued) ==
  { u \in UUIDs \ issued : u = UuidNames[Cardinality(issued) + 1] }

\* card ids a client can send: every uuid and one that is never issued
CardIds == UUIDs \cup { "nope" }

Procs == {1, 2}

\* what the model's answer can decode to: a JSON object with str values and
\* some keys left out, and one with a null and a number
Extractions ==
  { ("first_name" :> StrV(<< "a" >>)) @@ ("email" :> StrV(<< "e", COMMA, QUOTE >>)),
    ("first_name" :> NoneV) @@ ("phone" :> IntV(<< "5" >>)) }

\* extract_card_details: the call raises, parse_json_blob raises or returns
\* something that is not a dict, or it returns a dict
ExtractionOutcomes ==
  { [kind |-> "raise", dict |-> << >>], [kind |-> "nonobject", dict |-> << >>] }
  \cup { [kind |-> "object", dict |-> e] : e \in Extractions }

\* CardContext: three str fields, "" by default
Payloads ==
  { [k \in {"meeting_context", "priorities", "personal_notes"} |-> EmptyStr],
    [meeting_context |-> StrV(<< "m", COMMA, QUOTE, "x", QUOTE >>),
     priorities |-> StrV(<< "p", CR, LF, "q" >>),
     personal_notes |-> StrV(<< " ", "n" >>)] }

\* extract_capture_datetime: an ISO timestamp, from EXIF or the clock
extract_capture_datetime == StrV(<< "2026-01-01T00:00:00+00:00" >>)

\* the dict upload_card builds
NewRecord(card_id, extracted, capture_time) ==
  [k \in ColumnSet |->
     CASE k = "id" -> StrV(<< card_id >>)
       [] k \in { IdentityFields[i] : i \in 1..Len(IdentityFields) } ->
            Get(extracted, k, EmptyStr)
       [] k \in {"meeting_context", "priorities", "personal_notes"} -> EmptyStr
       [] k = "captured_at" -> capture_time
       [] k = "source_image" -> StrV(<< card_id, "_source", ".png" >>)
       [] k = "summary_image" -> EmptyStr
       [] k = "raw_ocr_json" -> StrV(json_dumps(extracted))]

\* changes that also reset the summary image
ContextChanges_ClearSummary(payload) ==
  [k \in {"meeting_context", "priorities", "personal_notes", "summary_image"} |->
     IF k = "summary_image" THEN EmptyStr ELSE payload[k]]

\* changes that leave the annotation out
ContextChanges_None(payload) == [k \in {} |-> EmptyStr]

\* the changes of save_context's first update_record
ContextChanges(payload) ==
  [k \in {"meeting_context", "priorities", "personal_notes"} |-> payload[k]]

\* the changes of save_context's second update_record
SummaryChanges(card_id) ==
  [k \in {"summary_image"} |-> StrV(<< card_id, "_summary.png" >>)]

\* create_image (backend/utils.py): returns the image bytes or raises
CreateImageOutcomes == {"ok", "raise"}

(***************************************************************************)
(* State                                                                   *)
(***************************************************************************)
VARIABLES
  fileExists,   \* DATA_FILE.exists()
  fileText,     \* the text of cards.csv
  issued,       \* the uuids uuid4 has returned
  pc,           \* where each worker's handler stands
  loc,          \* each handler's local variables and its response
  quota,        \* requests a worker may still take (-1: no limit)
  snap,         \* history: the records when the request arrived
  genOK,        \* history: card ids whose create_image call succeeded
  missed,       \* history: rows other workers wrote since this one's load
  lastWriter,   \* history: the worker whose write_records ran last
  blob          \* a parse_json_blob call: its input and its result

vars ==
  << fileExists, fileText, issued, pc, loc, quota, snap, genOK, missed,
     lastWriter, blob >>

storeVars ==
  << fileExists, fileText, issued, pc, loc, quota, snap, genOK, missed,
     lastWriter >>

NoBlob == [object |-> << >>, text |-> << >>, cleaned |-> << >>, done |-> FALSE]

NoRecord == [k \in ColumnSet |-> EmptyStr]

IdleLoc ==
  [op |-> "none", card_id |-> "", payload |-> ContextChanges(NoRecord),
   image_empty |-> FALSE, outcome |-> [kind |-> "raise", dict |-> << >>],
   record |-> NoRecord, records |-> << >>, writes |-> 0,
   imageRequested |-> FALSE, imageFailed |-> FALSE,
   status |-> 0, body |-> << >>]

\* the records a load_records would return now
Records == load_records(fileExists, fileText)

InitStore ==
  /\ fileExists = FALSE
  /\ fileText = << >>
  /\ issued = {}
  /\ pc = [p \in Procs |-> "idle"]
  /\ loc = [p \in Procs |-> IdleLoc]
  /\ snap = [p \in Procs |-> << >>]
  /\ genOK = {}
  /\ missed = [p \in Procs |-> {}]
  /\ lastWriter = 0

\* one worker, one request at a time
Init ==
  /\ InitStore
  /\ quota = [p \in Procs |-> IF p = 1 THEN -1 ELSE 0]
  /\ blob = NoBlob

\* two workers on the same file
InitConc ==
  /\ InitStore
  /\ quota = [p \in Procs |-> IF p = 1 THEN ConcRequests ELSE 1]
  /\ blob = NoBlob

\* no requests; parse_json_blob is called on a fenced response
InitParse ==
  /\ InitStore
  /\ quota = [p \in Procs |-> 0]
  /\ \E r \in FencedResponses :
       blob = [object |-> r.object, text |-> r.text, cleaned |-> << >>,
               done |-> FALSE]

\* a worker takes a request; records is what the store holds at that moment
Take(p, records) ==
  /\ pc[p] = "idle"
  /\ quota[p] # 0
  /\ quota' = [quota EXCEPT ![p] = IF @ > 0 THEN @ - 1 ELSE @]
  /\ snap' = [snap EXCEPT ![p] = records]

\* a load_records by worker p
Load(p) ==
  /\ fileExists' = TRUE
  /\ fileText' = ensure_data_file(fileExists, fileText)
  /\ missed' = [missed EXCEPT ![p] = {}]
  /\ UNCHANGED lastWriter

\* a write_records by worker p: rows the list adds are news to every worker
\* that loaded before
Write(p, records) ==
  /\ fileExists' = TRUE
  /\ fileText' = write_records(ensure_data_file(fileExists, fileText), records)
  /\ lastWriter' = p
  /\ IF \E q \in Procs : q # p /\ pc[q] \in {"up_write", "ctx_write1", "ctx_write2"}
       THEN LET new == Ids(records) \ Ids(Records)
            IN missed' = [q \in Procs |->
                 IF q # p /\ pc[q] \in {"up_write", "ctx_write1", "ctx_write2"}
                 THEN missed[q] \cup new ELSE missed[q]]
       ELSE UNCHANGED missed

Finish(p, l, status, body) ==
  /\ loc' = [loc EXCEPT ![p] = [l EXCEPT !.status = status, !.body = body]]
  /\ pc' = [pc EXCEPT ![p] = "done"]


(***************************************************************************)
(* POST /api/cards                                                         *)
(***************************************************************************)
\* upload_card up to the record dict: the empty-file check, the extraction,
\* the uuid
upload_card(p) ==
  /\ pc[p] = "idle"
  /\ Take(p, Records)
  /\ \E image_empty \in BOOLEAN, outcome \in ExtractionOutcomes :
       LET l == [IdleLoc EXCEPT !.op = "upload", !.image_empty = image_empty,
                                !.outcome = outcome]
       IN IF image_empty
            THEN /\ outcome.kind = "raise"
                 /\ Finish(p, [l EXCEPT !.outcome = IdleLoc.outcome], 400, << >>)
                 /\ UNCHANGED issued
          ELSE IF outcome.kind # "object"
            THEN Finish(p, l, 500, << >>) /\ UNCHANGED issued
          ELSE \E u \in uuid4(issued) :
                 /\ issued' = issued \cup {u}
                 /\ loc' = [loc EXCEPT ![p] =
                      [l EXCEPT !.card_id = u,
                                !.record = NewRecord(u, outcome.dict,
                                                     extract_capture_datetime)]]
                 /\ pc' = [pc EXCEPT ![p] = "up_load"]
  /\ UNCHANGED << fileExists, fileText, genOK, missed, lastWriter, blob >>

\* records = load_records(); records.append(record)
upload_card_load(p) ==
  /\ pc[p] = "up_load"
  /\ Load(p)
  /\ loc' = [loc EXCEPT ![p].records = Append(Records, loc[p].record)]
  /\ pc' = [pc EXCEPT ![p] = "up_write"]
  /\ UNCHANGED << issued, quota, snap, genOK, blob >>

\* write_records(records); return serialize_record(record)
upload_card_write(p) ==
  /\ pc[p] = "up_write"
  /\ Write(p, loc[p].records)
  /\ LET l == [loc[p] EXCEPT !.writes = 1]
     IN IF CardResponseValid(l.record)
          THEN Finish(p, l, 200, << serialize_record(l.record) >>)
          ELSE Finish(p, l, 500, << >>)
  /\ UNCHANGED << issued, quota, snap, genOK, blob >>

(***************************************************************************)
(* POST /api/cards/{card_id}/context                                       *)
(***************************************************************************)
\* save_context, first update_record: load_records and the search; an
\* unknown id raises 404
save_context(p) ==
  /\ pc[p] = "idle"
  /\ Load(p)
  /\ LET records == Records
     IN /\ Take(p, records)
        /\ \E card_id \in CardIds, payload \in Payloads :
             LET l == [IdleLoc EXCEPT !.op = "context", !.card_id = card_id,
                                      !.payload = payload]
                 upd == update_record(records, card_id, ContextChanges(payload))
             IN IF upd.found
                  THEN /\ loc' = [loc EXCEPT ![p] =
                            [l EXCEPT !.records = upd.records,
                                      !.record = upd.row]]
                       /\ pc' = [pc EXCEPT ![p] = "ctx_write1"]
                  ELSE Finish(p, l, 404, << >>)
  /\ UNCHANGED << issued, genOK, blob >>

\* first update_record: write_records(records); return row
save_context_write1(p) ==
  /\ pc[p] = "ctx_write1"
  /\ Write(p, loc[p].records)
  /\ loc' = [loc EXCEPT ![p].writes = 1]
  /\ pc' = [pc EXCEPT ![p] = "ctx_image"]
  /\ UNCHANGED << issued, quota, snap, genOK, blob >>

\* a handler that goes on after create_image raised
AfterImageFailure_Swallowed == "ctx_load2"

\* the pc after create_image raised: the exception leaves the handler
AfterImageFailure == "done"

\* summarize_for_image, create_image, save_image
save_context_create_image(p) ==
  /\ pc[p] = "ctx_image"
  /\ \E outcome \in CreateImageOutcomes :
       IF outcome = "ok"
         THEN /\ loc' = [loc EXCEPT ![p].imageRequested = TRUE]
              /\ pc' = [pc EXCEPT ![p] = "ctx_load2"]
              /\ genOK' = genOK \cup { loc[p].card_id }
         ELSE /\ loc' = [loc EXCEPT ![p].imageRequested = TRUE,
                                    ![p].imageFailed = TRUE,
                                    ![p].status = 500]
              /\ pc' = [pc EXCEPT ![p] = AfterImageFailure]
              /\ UNCHANGED genOK
  /\ UNCHANGED << fileExists, fileText, issued, quota, snap, missed, lastWriter, blob >>

\* second update_record: load_records and the search
save_context_load2(p) ==
  /\ pc[p] = "ctx_load2"
  /\ Load(p)
  /\ LET upd == update_record(Records, loc[p].card_id,
                              SummaryChanges(loc[p].card_id))
     IN IF upd.found
          THEN /\ loc' = [loc EXCEPT ![p].records = upd.records,
                                     ![p].record = upd.row]
               /\ pc' = [pc EXCEPT ![p] = "ctx_write2"]
          ELSE Finish(p, loc[p], 404, << >>)
  /\ UNCHANGED << issued, quota, snap, genOK, blob >>

\* second update_record: write_records(records); return
\* serialize_record(row)
save_context_write2(p) ==
  /\ pc[p] = "ctx_write2"
  /\ Write(p, loc[p].records)
  /\ LET l == [loc[p] EXCEPT !.writes = 2]
     IN IF CardResponseValid(l.record)
          THEN Finish(p, l, 200, << serialize_record(l.record) >>)
          ELSE Finish(p, l, 500, << >>)
  /\ UNCHANGED << issued, quota, snap, genOK, blob >>

(***************************************************************************)
(* GET /api/cards and GET /api/cards/{card_id}                             *)
(***************************************************************************)
list_cards(p) ==
  /\ pc[p] = "idle"
  /\ Load(p)
  /\ LET records == Records
     IN /\ Take(p, records)
        /\ Finish(p, [IdleLoc EXCEPT !.op = "list"], 200,
                  [i \in 1..Len(records) |-> serialize_record(records[i])])
  /\ UNCHANGED << issued, genOK, blob >>

get_card(p) ==
  /\ pc[p] = "idle"
  /\ Load(p)
  /\ LET records == Records
     IN /\ Take(p, records)
        /\ \E card_id \in CardIds :
             LET l == [IdleLoc EXCEPT !.op = "get", !.card_id = card_id]
             IN IF HasRow(records, card_id)
                  THEN Finish(p, l, 200,
                    << serialize_record(records[RowIndex(records, card_id)]) >>)
                  ELSE Finish(p, l, 404, << >>)
  /\ UNCHANGED << issued, genOK, blob >>

\* the response leaves; the worker is free again
Return(p) ==
  /\ pc[p] = "done"
  /\ pc' = [pc EXCEPT ![p] = "idle"]
  /\ loc' = [loc EXCEPT ![p] = IdleLoc]
  /\ snap' = [snap EXCEPT ![p] = << >>]
  /\ missed' = [missed EXCEPT ![p] = {}]
  /\ UNCHANGED << fileExists, fileText, issued, quota, genOK, lastWriter, blob >>

Next ==
  \E p \in Procs :
    \/ upload_card(p)
    \/ upload_card_load(p)
    \/ upload_card_write(p)
    \/ save_context(p)
    \/ save_context_write1(p)
    \/ save_context_create_image(p)
    \/ save_context_load2(p)
    \/ save_context_write2(p)
    \/ list_cards(p)
    \/ get_card(p)
    \/ Return(p)

Spec == Init /\ [][Next]_vars

SpecConc == InitConc /\ [][Next]_vars

\* extract_card_details: return parse_json_blob(content)
ParseCall ==
  /\ ~blob.done
  /\ blob' = [blob EXCEPT !.cleaned = parse_json_blob(blob.text), !.done = TRUE]
  /\ UNCHANGED storeVars

NextParse == ParseCall

SpecParse == InitParse /\ [][NextParse]_vars

(***************************************************************************)
(* Properties                                                              *)
(***************************************************************************)
RowOf(records, card_id) == records[RowIndex(records, card_id)]

\* what load_records returns for rows written from the list
AsStored(records) ==
  [i \in 1..Len(records) |->
     [k \in ColumnSet |-> StrV(CsvText(Get(records[i], k, EmptyStr)))]]

AnnotationFields == {"meeting_context", "priorities", "personal_notes"}

\* C1: a save_context for an id no stored record has ends with 404, calls
\* no image generation, writes nothing and leaves the records as they were.
C1_UnknownIdNotFound ==
  \A p \in Procs :
    (loc[p].op = "context" /\ ~HasRow(snap[p], loc[p].card_id)) =>
      /\ pc[p] = "done"
      /\ loc[p].status = 404
      /\ ~loc[p].imageRequested
      /\ loc[p].writes = 0
      /\ Records = snap[p]

C1_Witness ==
  \E p \in Procs :
    /\ loc[p].op = "context" /\ pc[p] = "done" /\ loc[p].status = 404
    /\ Len(snap[p]) > 0 /\ ~HasRow(snap[p], loc[p].card_id)

C3_RoundTrip ==
  \A p \in Procs :
    (pc[p] = "done" /\ loc[p].writes > 0 /\ loc[p].op \in {"upload", "context"}) =>
      /\ HasRow(Records, loc[p].card_id)
      /\ \A k \in ResponseStrFields \cup {"raw_ocr_json"} :
           serialize_record(RowOf(Records, loc[p].card_id))[k] = loc[p].record[k]

\* C4: a stored record has a summary image only if a create_image call of
\* a save_context for its id has succeeded before.
C4_SummaryOnlyAfterGeneration ==
  LET recs == Records
  IN \A i \in 1..Len(recs) :
       recs[i]["summary_image"] # EmptyStr =>
         \E u \in genOK : recs[i]["id"] = StrV(<< u >>)

C4_Witness ==
  LET recs == Records
  IN /\ \E i \in 1..Len(recs) : recs[i]["summary_image"] # EmptyStr
     /\ \E i \in 1..Len(recs) :
          /\ recs[i]["summary_image"] = EmptyStr
          /\ recs[i]["meeting_context"] # EmptyStr

\* C5 as stated: when create_image fails the request ends in an error and
\* the stored record's summary_image is empty.
C5_FailureLeavesSummaryEmpty ==
  \A p \in Procs :
    loc[p].imageFailed =>
      /\ pc[p] = "done" /\ loc[p].status = 500
      /\ HasRow(Records, loc[p].card_id)
      /\ RowOf(Records, loc[p].card_id)["summary_image"] = EmptyStr

\* C5 amended: when create_image fails the request ends in an error and the
\* stored record's summary_image is what it was before the request; it is
\* empty when no create_image for the card has succeeded.
C5_FailureKeepsSummary ==
  \A p \in Procs :
    loc[p].imageFailed =>
      /\ pc[p] = "done" /\ loc[p].status = 500
      /\ HasRow(Records, loc[p].card_id)
      /\ RowOf(Records, loc[p].card_id)["summary_image"] =
           RowOf(snap[p], loc[p].card_id)["summary_image"]
      /\ loc[p].card_id \notin genOK =>
           RowOf(Records, loc[p].card_id)["summary_image"] = EmptyStr

C5_Witness ==
  \E p \in Procs :
    /\ loc[p].imageFailed
    /\ RowOf(snap[p], loc[p].card_id)["summary_image"] # EmptyStr

\* C6: an upload_card that ends in an error has written nothing and leaves
\* the records as they were; an empty file ends with 400.
C6_FailedUploadLeavesStore ==
  \A p \in Procs :
    (loc[p].op = "upload" /\ pc[p] = "done" /\ loc[p].status # 200) =>
      /\ loc[p].writes = 0
      /\ Records = snap[p]
      /\ loc[p].image_empty => loc[p].status = 400

\* C7: with two workers, right after a worker's write_records the store is
\* the list that worker loaded with its own change and nothing else: a row
\* another worker wrote between that load and that write is gone.
C7_LostUpdate ==
  \A p \in Procs :
    ( /\ lastWriter = p /\ loc[p].writes > 0
      /\ pc[p] \in {"done", "ctx_image", "ctx_load2"} ) =>
      /\ Records = AsStored(loc[p].records)
      /\ \A u \in missed[p] : u \notin Ids(Records)

C7_Witness ==
  \E p \in Procs :
    /\ lastWriter = p /\ pc[p] = "done" /\ loc[p].status = 200
    /\ missed[p] # {}
    /\ \A u \in missed[p] : u \notin Ids(Records)

\* C8: with one request at a time, during and after every request the
\* records stored when it arrived are still there in the same order with
\* the same ids; upload_card, list_cards and get_card leave each of them
\* unchanged; save_context changes nothing but the annotation fields and
\* summary_image of the record with its id; only upload_card adds a record.
C8_Frame ==
  \A p \in Procs :
    pc[p] # "idle" =>
      LET now == Records
          was == snap[p]
      IN /\ Len(now) >= Len(was)
         /\ loc[p].op # "upload" => Len(now) = Len(was)
         /\ \A i \in 1..Len(was) :
              /\ now[i]["id"] = was[i]["id"]
              /\ loc[p].op # "context" => now[i] = was[i]
              /\ \A k \in ColumnSet :
                   now[i][k] # was[i][k] =>
                     /\ was[i]["id"] = StrV(<< loc[p].card_id >>)
                     /\ k \in AnnotationFields \cup {"summary_image"}

C8_Witness ==
  \E p \in Procs :
    /\ loc[p].op = "context" /\ pc[p] = "done" /\ loc[p].status = 200
    /\ Len(snap[p]) >= 2
    /\ Records # snap[p]

\* C9: for a response that wraps a JSON object in code fences, the text
\* parse_json_blob hands to the decoder is the object.
C9_FencedObjectRecovered == blob.done => blob.cleaned = blob.object

\* C10: save_context writes twice.  From its first write on the stored
\* record holds the submitted annotation; until its second write the
\* summary_image is what it was before the request; the image is requested
\* only after the first write and the second write only follows a
\* successful image.  When create_image fails the request ends with an
\* error after one write: the annotation stays and summary_image is the old
\* one.
C10_TwoWrites ==
  \A p \in Procs :
    loc[p].op = "context" =>
      /\ loc[p].imageRequested => loc[p].writes >= 1
      /\ loc[p].writes = 2 => loc[p].imageRequested /\ ~loc[p].imageFailed
      /\ loc[p].imageFailed =>
           pc[p] = "done" /\ loc[p].status = 500 /\ loc[p].writes = 1
      /\ loc[p].writes >= 1 =>
           /\ HasRow(Records, loc[p].card_id)
           /\ \A k \in AnnotationFields :
                RowOf(Records, loc[p].card_id)[k] = loc[p].payload[k]
           /\ RowOf(Records, loc[p].card_id)["summary_image"] =
                IF loc[p].writes = 1
                  THEN RowOf(snap[p], loc[p].card_id)["summary_image"]
                  ELSE StrV(<< loc[p].card_id, "_summary.png" >>)

C10_Witness ==
  \E p \in Procs :
    /\ loc[p].imageFailed /\ pc[p] = "done"
    /\ RowOf(snap[p], loc[p].card_id)["meeting_context"] #
         loc[p].payload["meeting_context"]
    /\ RowOf(Records, loc[p].card_id)["meeting_context"] =
         loc[p].payload["meeting_context"]

====
